---- MODULE Spec2Model ----
(***************************************************************************)
(* The lobby engine of backend/server.py: one Lobby (class Lobby), the     *)
(* Manager handlers that drive it, and the lobby runner task (_run and     *)
(* _run_game).                                                             *)
(*                                                                         *)
(* Scheduling.  The server is one asyncio loop.  The Manager task handles  *)
(* one client message or one Dustkid event at a time; the lobby runner is  *)
(* a second task.  A step of the model is the code a task runs between two *)
(* suspension points.  The only awaits inside the Manager handlers that    *)
(* are followed by code are the HTTP lookups Level.from_id and             *)
(* User.create; what a handler reads before them (the password, the        *)
(* lobby's level, the Manager's client table) is never written by the      *)
(* runner, so a handler is one step taken when its lookup returns.         *)
(*                                                                         *)
(* Time.  Only the runner reads the clock (datetime.now at the start of    *)
(* warmup and of each break); `now` is the runner's clock, advanced by the *)
(* runner's sleeps.                                                        *)
(*                                                                         *)
(* Two views.  Spec follows one lobby (id 0) through its games, with the   *)
(* lobby table fixed.  LifeSpec follows the lobby table: raw client        *)
(* messages through messages.load and Manager.handle_message, Lobby.create,*)
(* the empty-lobby timer and run_lobby, with a lobby's game reduced to its *)
(* start signal and allow_joining.                                         *)
(***************************************************************************)
EXTENDS Integers, Sequences, FiniteSets, TLC

\* ---------------------------------------------------------------- bounds
\* User ids that log in or post scores: 1..MaxUser (0 is the invalid id).
MaxUser == 3
\* Break/round cycles the runner's clock leaves room for.
MaxRounds == 2

\* Lobbies that can be live at once: stands for MAX_LOBBY_COUNT (100).
MaxLobbyCount == 2
\* Lobby ids Lobby.create hands out before the model stops creating:
\* 0..MaxCreated - 1.
MaxCreated == 3

\* ------------------------------------------------------ program constants
WarmupTime == 240
BreakTime == 15
RoundTime == 60
RoundPadding == 2
GameOverHold == 10

\* One break and round of _run_game, and the time at which the runner's
\* clock stops the model: after one game of MaxRounds rounds.
CycleTime == BreakTime + RoundTime + RoundPadding
MaxTime == WarmupTime + MaxRounds * CycleTime + GameOverHold

\* ------------------------------------------------------------- optionals
\* Python's None and a present value.
None == <<>>
Some(x) == <<x>>
Get(m) == m[1]

\* ---------------------------------------------------------------- inputs
Identities == {"c1"}
UserIds == 1..MaxUser
LoginIds == 0..MaxUser
Password == "pw"
Passwords == {"pw", "bad"}
LevelIds == {17, 99}
Modes == {"any", "ss", "other"}
Filenames == {"foo-17", "bar-18"}
\* (score_completion, score_finesse) of an event.
Ratings == {<<5, 5>>, <<5, 4>>}
Times == {1000}

VARIABLES
    manager_clients,  \* Manager.clients: identity -> Client.user
    clients,          \* Lobby.clients (identities)
    users,            \* Lobby.users (ids)
    allow_joining,
    level,            \* Lobby.level: None or Some(filename)
    condition,        \* Lobby.condition: None or Some(mode)
    scores,           \* Lobby.scores: a dict, in insertion order
    start_round,      \* Lobby.start_round (asyncio.Event): set or not
    eliminated,
    warmup_end, break_end, round_end,
    pc,               \* where the runner task is suspended
    send_task,        \* a send_state task created by the runner, not yet run
    now,              \* the runner's clock
    sent,             \* the last step broadcast a state snapshot
    manager_alive,    \* the Manager.run task has not raised
    lobbies,          \* Lobby.lobbies: the ids in the lobby table
    next_id,          \* Lobby.next_id
    attached,         \* Manager.clients: identity -> None or Some(Client)
    lobby_clients,    \* id -> BaseLobby.clients (identities)
    closing,          \* id -> BaseLobby.closing: "none", "pending", "done"
    on_close,         \* id -> BaseLobby.on_close is set
    started,          \* id -> Lobby.start_round is set
    joining,          \* id -> Lobby.allow_joining
    outbox,           \* what the last step sent on the clients socket
    barren,           \* history: a round ended with no remaining scorer
    ingest_pc,        \* where dustkid_events is: "connect", "stream", "sleep",
                      \* "returned" or "raised"
    upstream,         \* the bytes the response has still to deliver
    delivered,        \* history: the bytes of the chunks of this connection
    buffer,
    published,        \* what socket.send published during this connection
    backoff_seconds,
    sleep_seconds,    \* the argument of the last asyncio.sleep, 0 before it
    context_closed,   \* context.closed
    ws_state,         \* identity -> where WebsocketHandler.run is: "idle",
                      \* "open" (in its loop) or "returned"
    ws_opened,        \* identity -> what run sent first: "none", "create", "join"
    inflight,         \* identity -> the messages sent and not yet received
    bus,              \* the events published and not yet received
    next_event,       \* the number of the next event the ingester publishes
    delivery,         \* handle_dustkid_event suspended: None, or the event
                      \* and the lobbies of its list still to call
    deliveries,       \* history: the calls of on_dustkid_event, in order
    receipts          \* history: the events received, each with the table

lobby_vars == <<users, allow_joining, level, condition, scores, start_round,
                eliminated, warmup_end, break_end, round_end>>
game_vars == <<manager_clients, clients, users, allow_joining, level, condition,
               scores, start_round, eliminated, warmup_end, break_end, round_end,
               pc, send_task, now, sent, barren>>
life_vars == <<lobbies, next_id, attached, lobby_clients, closing,
               on_close, started, joining, outbox>>
ingest_vars == <<ingest_pc, upstream, delivered, buffer, published,
                 backoff_seconds, sleep_seconds, context_closed>>
\* What the steps of the Manager and of the lobbies leave alone.
gateway_vars == <<ws_state, ws_opened, inflight>>
bus_vars == <<bus, next_event, delivery, deliveries, receipts>>
side_vars == <<ingest_vars, gateway_vars, bus_vars>>
broker_vars == <<game_vars, manager_alive, life_vars>>
vars == <<broker_vars, side_vars>>

\* ------------------------------------------------------ external lookups
\* get_level_filename: the catalog's answer for a level id.
get_level_filename(id) == IF id = 17 THEN Some("foo-17") ELSE None

\* Level.id: the number after the last "-" of the filename.
LevelId(filename) ==
    CASE filename = "foo-17" -> Some(17)
      [] filename = "bar-18" -> Some(18)
      [] OTHER -> None

\* User._fetch_name: None for an id outside 1..1_000_000.
fetch_name(id) == IF 1 <= id /\ id <= 1000000 THEN Some(id) ELSE None

\* ------------------------------------------------------------ the lobby
\* The lobby ids a start_round or join names.
LobbyIds == {0, 1}

\* Lobby.remaining
remaining == users \ eliminated

\* set(self.scores): the keys of the dict.
ScoreKeys(sc) == {sc[i].user : i \in DOMAIN sc}

\* self.scores.get(user)
ScoreGet(sc, user) ==
    IF user \in ScoreKeys(sc)
    THEN Some(sc[CHOOSE i \in DOMAIN sc : sc[i].user = user])
    ELSE None

\* self.scores[user] = score: a key already in the dict keeps its place,
\* a new key goes last.
ScorePut(sc, user, score) ==
    IF user \in ScoreKeys(sc)
    THEN [i \in DOMAIN sc |-> IF sc[i].user = user THEN score ELSE sc[i]]
    ELSE Append(sc, score)

\* Score.from_dustkid_event, kept with the dict key.
from_dustkid_event(event) ==
    [user |-> event.user,
     completion |-> event.score_completion,
     finesse |-> event.score_finesse,
     time |-> event.time,
     timestamp |-> event.timestamp]

\* Score.ss_key, as a tuple, and Python's tuple order on it.
ss_key(score) == <<score.completion + score.finesse, -score.time, -score.timestamp>>
KeyLess(a, b) ==
    \/ a[1] < b[1]
    \/ a[1] = b[1] /\ a[2] < b[2]
    \/ a[1] = b[1] /\ a[2] = b[2] /\ a[3] < b[3]

\* The predicate on_start_round installs for a mode.
ConditionAccepts(cond, event) ==
    CASE cond = Some("any") -> TRUE
      [] cond = Some("ss") -> event.score_completion = 5 /\ event.score_finesse = 5
      [] OTHER -> FALSE

\* on_dustkid_event, first check: the lobby has a level and it is the event's.
LevelMatches(event) == level # None /\ event.level = Get(level)

\* Mutant of InWindow: the upper end of the window is not checked.
InWindowNoUpperEnd(event) ==
    /\ round_end # None
    /\ ~(event.timestamp < Get(round_end) - RoundTime)

\* on_dustkid_event, third check: the event lies in the round's window.
InWindow(event) ==
    /\ round_end # None
    /\ ~(event.timestamp < Get(round_end) - RoundTime)
    /\ ~(event.timestamp > Get(round_end))

\* The event passes every check of on_dustkid_event.
Accepted(event) ==
    /\ LevelMatches(event)
    /\ condition # None /\ ConditionAccepts(condition, event)
    /\ InWindow(event)

\* on_dustkid_event, the test that replaces the stored score.
Replaces(old_score, new_score) ==
    old_score = None \/ Get(old_score).timestamp > new_score.timestamp

\* Timestamps an event may carry: around the two ends of the window.
EventTimestamps ==
    IF round_end = None THEN {now}
    ELSE {Get(round_end) - RoundTime - 1, Get(round_end) - RoundTime,
          Get(round_end), Get(round_end) + 1}

Events ==
    {[user |-> u, level |-> l, score_completion |-> r[1], score_finesse |-> r[2],
      time |-> t, timestamp |-> ts] :
        u \in UserIds, l \in Filenames, r \in Ratings, t \in Times,
        ts \in EventTimestamps}

\* Lobby.on_dustkid_event, as Manager.handle_dustkid_event delivers it.
on_dustkid_event(event) ==
    LET new_score == from_dustkid_event(event)
        old_score == ScoreGet(scores, event.user)
    IN  IF Accepted(event) /\ Replaces(old_score, new_score)
        THEN /\ scores' = ScorePut(scores, event.user, new_score)
             /\ sent' = (clients # {})
             /\ UNCHANGED <<manager_clients, clients, users, allow_joining, level,
                            condition, start_round, eliminated, warmup_end,
                            break_end, round_end, pc, send_task, now>>
        ELSE /\ sent' = FALSE
             /\ UNCHANGED <<manager_clients, clients, users, allow_joining, level,
                            condition, scores, start_round, eliminated, warmup_end,
                            break_end, round_end, pc, send_task, now>>

\* Mutant of on_start_round: a game in progress does not stop a new start.
on_start_round_NoProgressCheck(password, level_id, mode) ==
    LET reuse == level # None /\ LevelId(Get(level)) = Some(level_id)
        new_level == IF reuse THEN level ELSE get_level_filename(level_id)
    IN  IF password # Password \/ new_level = None
        THEN /\ sent' = FALSE
             /\ UNCHANGED <<manager_clients, clients, users, allow_joining, level,
                            condition, scores, start_round, eliminated, warmup_end,
                            break_end, round_end, pc, send_task, now>>
        ELSE /\ condition' = IF mode \in {"any", "ss"} THEN Some(mode) ELSE condition
             /\ level' = new_level
             /\ start_round' = TRUE
             /\ sent' = FALSE
             /\ UNCHANGED <<manager_clients, clients, users, allow_joining, scores,
                            eliminated, warmup_end, break_end, round_end, pc,
                            send_task, now>>

\* Mutant of on_start_round: the password is not checked.
on_start_round_NoPasswordCheck(password, level_id, mode) ==
    LET reuse == level # None /\ LevelId(Get(level)) = Some(level_id)
        new_level == IF reuse THEN level ELSE get_level_filename(level_id)
    IN  IF new_level = None \/ start_round
        THEN /\ sent' = FALSE
             /\ UNCHANGED <<manager_clients, clients, users, allow_joining, level,
                            condition, scores, start_round, eliminated, warmup_end,
                            break_end, round_end, pc, send_task, now>>
        ELSE /\ condition' = IF mode \in {"any", "ss"} THEN Some(mode) ELSE condition
             /\ level' = new_level
             /\ start_round' = TRUE
             /\ sent' = FALSE
             /\ UNCHANGED <<manager_clients, clients, users, allow_joining, scores,
                            eliminated, warmup_end, break_end, round_end, pc,
                            send_task, now>>

\* Mutant of on_start_round: the resolved level is not stored.
on_start_round_KeepsLevel(password, level_id, mode) ==
    LET reuse == level # None /\ LevelId(Get(level)) = Some(level_id)
        new_level == IF reuse THEN level ELSE get_level_filename(level_id)
    IN  IF password # Password \/ new_level = None \/ start_round
        THEN /\ sent' = FALSE
             /\ UNCHANGED <<manager_clients, clients, users, allow_joining, level,
                            condition, scores, start_round, eliminated, warmup_end,
                            break_end, round_end, pc, send_task, now>>
        ELSE /\ condition' = IF mode \in {"any", "ss"} THEN Some(mode) ELSE condition
             /\ start_round' = TRUE
             /\ sent' = FALSE
             /\ UNCHANGED <<manager_clients, clients, users, allow_joining, level,
                            scores, eliminated, warmup_end, break_end, round_end,
                            pc, send_task, now>>

\* Lobby.on_start_round, as Manager.handle_start_round delivers it.
on_start_round(password, level_id, mode) ==
    LET reuse == level # None /\ LevelId(Get(level)) = Some(level_id)
        new_level == IF reuse THEN level ELSE get_level_filename(level_id)
    IN  IF password # Password \/ new_level = None \/ start_round
        THEN /\ sent' = FALSE
             /\ UNCHANGED <<manager_clients, clients, users, allow_joining, level,
                            condition, scores, start_round, eliminated, warmup_end,
                            break_end, round_end, pc, send_task, now>>
        ELSE /\ condition' = IF mode \in {"any", "ss"} THEN Some(mode) ELSE condition
             /\ level' = new_level
             /\ start_round' = TRUE
             /\ sent' = FALSE
             /\ UNCHANGED <<manager_clients, clients, users, allow_joining, scores,
                            eliminated, warmup_end, break_end, round_end, pc,
                            send_task, now>>

handle_start_round(lobby_id, password, level_id, mode) ==
    IF lobby_id \notin lobbies
    THEN /\ sent' = FALSE
         /\ UNCHANGED <<manager_clients, clients, users, allow_joining, level,
                        condition, scores, start_round, eliminated, warmup_end,
                        break_end, round_end, pc, send_task, now>>
    ELSE on_start_round(password, level_id, mode)

\* Manager.handle_join and BaseLobby.on_join.
handle_join(identity, lobby_id) ==
    IF identity \in DOMAIN manager_clients \/ lobby_id \notin lobbies
    THEN /\ sent' = FALSE
         /\ UNCHANGED <<manager_clients, clients, users, allow_joining, level,
                        condition, scores, start_round, eliminated, warmup_end,
                        break_end, round_end, pc, send_task, now>>
    ELSE /\ manager_clients' =
             [i \in DOMAIN manager_clients \cup {identity} |->
                 IF i = identity THEN None ELSE manager_clients[i]]
         /\ clients' = clients \cup {identity}
         /\ sent' = TRUE
         /\ UNCHANGED <<users, allow_joining, level, condition, scores,
                        start_round, eliminated, warmup_end, break_end, round_end,
                        pc, send_task, now>>

\* Manager.handle_leave and BaseLobby.on_leave.
handle_leave(identity) ==
    IF identity \notin DOMAIN manager_clients
    THEN /\ sent' = FALSE
         /\ UNCHANGED <<manager_clients, clients, users, allow_joining, level,
                        condition, scores, start_round, eliminated, warmup_end,
                        break_end, round_end, pc, send_task, now>>
    ELSE /\ manager_clients' =
             [i \in DOMAIN manager_clients \ {identity} |-> manager_clients[i]]
         /\ clients' = clients \ {identity}
         /\ sent' = (clients' # {})
         /\ UNCHANGED <<users, allow_joining, level, condition, scores,
                        start_round, eliminated, warmup_end, break_end, round_end,
                        pc, send_task, now>>

\* Manager.handle_login, Client.login and Lobby.on_login.
handle_login(identity, user_id) ==
    IF identity \notin DOMAIN manager_clients \/ fetch_name(user_id) = None
    THEN /\ sent' = FALSE
         /\ UNCHANGED <<manager_clients, clients, users, allow_joining, level,
                        condition, scores, start_round, eliminated, warmup_end,
                        break_end, round_end, pc, send_task, now>>
    ELSE /\ manager_clients' = [manager_clients EXCEPT ![identity] = Some(user_id)]
         /\ users' = IF allow_joining THEN users \cup {user_id} ELSE users
         /\ sent' = (allow_joining /\ clients # {})
         /\ UNCHANGED <<clients, allow_joining, level, condition, scores,
                        start_round, eliminated, warmup_end, break_end, round_end,
                        pc, send_task, now>>

\* Manager.handle_logout, Client.logout and Lobby.on_logout.
handle_logout(identity) ==
    IF identity \notin DOMAIN manager_clients
    THEN /\ sent' = FALSE
         /\ UNCHANGED <<manager_clients, clients, users, allow_joining, level,
                        condition, scores, start_round, eliminated, warmup_end,
                        break_end, round_end, pc, send_task, now>>
    ELSE /\ manager_clients' = [manager_clients EXCEPT ![identity] = None]
         /\ sent' = FALSE
         /\ UNCHANGED <<clients, users, allow_joining, level, condition, scores,
                        start_round, eliminated, warmup_end, break_end, round_end,
                        pc, send_task, now>>

\* ------------------------------------------------------------ the runner
\* sorted(..., key=timestamp) of _run_game: Python's sort is stable, so an
\* entry goes after the entries whose timestamp is not greater.
Insert(sorted, x) ==
    LET k == Cardinality({i \in DOMAIN sorted : sorted[i].timestamp <= x.timestamp})
    IN  SubSeq(sorted, 1, k) \o <<x>> \o SubSeq(sorted, k + 1, Len(sorted))

RECURSIVE SortedByTimestamp(_)
SortedByTimestamp(sc) ==
    IF sc = <<>> THEN <<>>
    ELSE Insert(SortedByTimestamp(SubSeq(sc, 1, Len(sc) - 1)), sc[Len(sc)])

\* The scores of the users in rem, in dict order.
RemainingScores(rem, sc) == SelectSeq(sc, LAMBDA s : s.user \in rem)

\* sorted_scores[-1][0]
LastScorer(rem, sc) ==
    LET sorted_scores == SortedByTimestamp(RemainingScores(rem, sc))
    IN  sorted_scores[Len(sorted_scores)].user

\* Mutant of Out: the last scorer goes out whenever anybody scored, also
\* when other players posted no score.
OutLastScorerAlways(rem, sc) ==
    LET scored == rem \cap ScoreKeys(sc)
        out == IF scored # {} THEN {LastScorer(rem, sc)} ELSE rem
    IN  IF out = rem THEN {} ELSE out

\* Mutant of Out: the whole field may go out in one round.
OutWholeField(rem, sc) ==
    LET no_score == rem \ ScoreKeys(sc)
    IN  IF no_score = {} THEN {LastScorer(rem, sc)} ELSE no_score

\* Mutant of Out: when every remaining player scored, nobody goes out.
OutOnlyWithoutScore(rem, sc) ==
    LET out == rem \ ScoreKeys(sc)
    IN  IF out = rem THEN {} ELSE out

\* _run_game, the elimination step: the users that go out.
Out(rem, sc) ==
    LET no_score == rem \ ScoreKeys(sc)
        out == IF no_score = {} THEN {LastScorer(rem, sc)} ELSE no_score
    IN  IF out = rem THEN {} ELSE out

\* Mutant of GameContinues: the game ends with two players left.
GameContinuesAboveTwo(rem) == Cardinality(rem) > 2

\* _run_game, the condition of its while loop.
GameContinues(rem) == Cardinality(rem) > 1

\* _run_game at the head of its while loop, at time t with rem remaining:
\* another break and round (started only while the clock leaves room for
\* it), or the end of the game.
LoopHead(rem, t) ==
    IF GameContinues(rem)
    THEN /\ t + CycleTime <= MaxTime
         /\ break_end' = Some(t + BreakTime)
         /\ round_end' = Some(t + BreakTime + RoundTime)
         /\ send_task' = TRUE
         /\ sent' = FALSE
         /\ pc' = "break"
    ELSE /\ break_end' = None
         /\ round_end' = None
         /\ send_task' = FALSE
         /\ sent' = (clients # {})
         /\ pc' = "hold"

\* Mutant of StartGame: the runner does not close the lobby to logins.
StartGameKeepsJoining ==
    /\ pc = "wait"
    /\ start_round
    /\ allow_joining' = allow_joining
    /\ warmup_end' = Some(now + WarmupTime)
    /\ send_task' = TRUE
    /\ sent' = FALSE
    /\ pc' = "warmup"
    /\ UNCHANGED <<manager_clients, clients, users, level, condition, scores,
                   start_round, eliminated, break_end, round_end, now>>

\* _run wakes on the start signal and _run_game starts the warmup.
StartGame ==
    /\ pc = "wait"
    /\ start_round
    /\ allow_joining' = FALSE
    /\ warmup_end' = Some(now + WarmupTime)
    /\ send_task' = TRUE
    /\ sent' = FALSE
    /\ pc' = "warmup"
    /\ UNCHANGED <<manager_clients, clients, users, level, condition, scores,
                   start_round, eliminated, break_end, round_end, now>>

\* The send_state task _run_game created runs.
SendStateTask ==
    /\ send_task
    /\ send_task' = FALSE
    /\ sent' = (clients # {})
    /\ UNCHANGED <<manager_clients, clients, users, allow_joining, level,
                   condition, scores, start_round, eliminated, warmup_end,
                   break_end, round_end, pc, now>>

\* Mutant of WarmupEnd: warmup_end is not cleared when the warmup is over.
WarmupEndKeepsDeadline ==
    /\ pc = "warmup"
    /\ ~send_task
    /\ now + WarmupTime <= MaxTime
    /\ now' = now + WarmupTime
    /\ warmup_end' = warmup_end
    /\ LoopHead(remaining, now')
    /\ UNCHANGED <<manager_clients, clients, users, allow_joining, level,
                   condition, scores, start_round, eliminated>>

\* The warmup sleep ends.
WarmupEnd ==
    /\ pc = "warmup"
    /\ ~send_task
    /\ now + WarmupTime <= MaxTime
    /\ now' = now + WarmupTime
    /\ warmup_end' = None
    /\ LoopHead(remaining, now')
    /\ UNCHANGED <<manager_clients, clients, users, allow_joining, level,
                   condition, scores, start_round, eliminated>>

\* The break sleep ends and the round sleep starts.
BreakEnd ==
    /\ pc = "break"
    /\ ~send_task
    /\ now' = now + BreakTime
    /\ pc' = "round"
    /\ sent' = FALSE
    /\ UNCHANGED <<manager_clients, clients, users, allow_joining, level,
                   condition, scores, start_round, eliminated, warmup_end,
                   break_end, round_end, send_task>>

\* The round sleep ends: the elimination step, then the loop head.
RoundEnd ==
    /\ pc = "round"
    /\ now' = now + RoundTime + RoundPadding
    /\ eliminated' = eliminated \cup Out(remaining, scores)
    /\ scores' = <<>>
    /\ LoopHead(users \ eliminated', now')
    /\ UNCHANGED <<manager_clients, clients, users, allow_joining, level,
                   condition, start_round, warmup_end>>

\* _run after its second send_state: back to waiting for the start signal.
BackToWait ==
    /\ start_round' = FALSE
    /\ allow_joining' = TRUE
    /\ pc' = "wait"

\* The game-over sleep ends: eliminated is reset and the state is sent, in
\* _run_game and again in _run; send_state suspends the runner only when
\* there are clients to send to.
HoldEnd ==
    /\ pc = "hold"
    /\ now + GameOverHold <= MaxTime
    /\ now' = now + GameOverHold
    /\ eliminated' = {}
    /\ IF clients # {}
       THEN /\ sent' = TRUE
            /\ pc' = "reset_sent"
            /\ UNCHANGED <<start_round, allow_joining>>
       ELSE /\ sent' = FALSE
            /\ BackToWait
    /\ UNCHANGED <<manager_clients, clients, users, level, condition, scores,
                   warmup_end, break_end, round_end, send_task>>

\* _run resumes after _run_game's last send_state and sends the state again.
ResetSend ==
    /\ pc = "reset_sent"
    /\ IF clients # {}
       THEN /\ sent' = TRUE
            /\ pc' = "run_sent"
            /\ UNCHANGED <<start_round, allow_joining>>
       ELSE /\ sent' = FALSE
            /\ BackToWait
    /\ UNCHANGED <<manager_clients, clients, users, level, condition, scores,
                   eliminated, warmup_end, break_end, round_end, send_task, now>>

\* _run resumes after its own send_state.
ResetDone ==
    /\ pc = "run_sent"
    /\ sent' = FALSE
    /\ BackToWait
    /\ UNCHANGED <<manager_clients, clients, users, level, condition, scores,
                   eliminated, warmup_end, break_end, round_end, send_task, now>>

\* ---------------------------------------------------------- the snapshot
\* A timer of the snapshot: None, or the start and end of the deadline.
Timer(deadline, duration) ==
    IF deadline # None
    THEN Some([start |-> Get(deadline) - duration, end |-> Get(deadline)])
    ELSE None

\* Lobby._state: the snapshot send_state broadcasts.  scores lists the
\* remaining users that scored, by ascending timestamp; zeros holds the
\* remaining users without a score, which follow in no fixed order.
lobby_state ==
    [level |-> level,
     warmup_timer |-> Timer(warmup_end, WarmupTime),
     round_timer |-> Timer(round_end, RoundTime),
     break_timer |-> Timer(break_end, BreakTime),
     users |-> users,
     scores |-> SortedByTimestamp(RemainingScores(remaining, scores)),
     zeros |-> remaining \ ScoreKeys(scores)]

\* ======================================================= the lobby table
\* Clients, user ids and lobby ids of the lobby-table view.
LifeIdentities == {"c1", "c2"}
LifeUserIds == {0, 1}
CreatedIds == 0..(MaxCreated - 1)

\* A JSON value of a message field: a number, a string or an array.
Num(n) == [kind |-> "int", s |-> "", n |-> n]
Text(s) == [kind |-> "str", s |-> s, n |-> 0]
Array == [kind |-> "list", s |-> "", n |-> 0]

\* Lobby.password: 20 random characters, one string per lobby.
password_of(id) == [kind |-> "str", s |-> "password", n |-> id]

\* The bytes of a client message, by what json.loads makes of them: "text"
\* does not parse, "array" parses to a list, "object" to a dict that has
\* the keys whose value here is not None.
NotObject(form) ==
    [form |-> form, type |-> None, lobby_id |-> None, password |-> None,
     level_id |-> None, mode |-> None, user_id |-> None]
Object(type, lobby_id, password, level_id, mode, user_id) ==
    [form |-> "object", type |-> type, lobby_id |-> lobby_id,
     password |-> password, level_id |-> level_id, mode |-> mode,
     user_id |-> user_id]
OnlyType(type) == Object(type, None, None, None, None, None)
JoinMessage(lobby_id) == Object(Some("join"), Some(lobby_id), None, None, None, None)
LoginMessage(user_id) == Object(Some("login"), None, None, None, None, Some(user_id))
StartRoundMessage(lobby_id, password, level_id) ==
    Object(Some("start_round"), Some(lobby_id), Some(password), Some(level_id),
           Some(Text("any")), None)

\* What the clients socket can deliver.  The websocket gateway forwards
\* every JSON object that has a type, and itself sends {"type": "create"}.
RawMessages ==
    {NotObject("text"), NotObject("array"), OnlyType(None)}
    \cup {OnlyType(Some(t)) : t \in {"create", "create_lobby", "join", "leave",
                                     "login", "logout", "start_round"}}
    \cup {JoinMessage(v) : v \in {Num(l) : l \in CreatedIds} \cup {Text("0"), Array}}
    \cup {LoginMessage(v) : v \in {Num(u) : u \in LifeUserIds} \cup {Text("1")}}
    \cup {StartRoundMessage(Num(l), p, Num(id)) :
              l \in CreatedIds,
              p \in {password_of(k) : k \in CreatedIds} \cup {Text("bad")},
              id \in LevelIds}

\* messages.load: None unless the bytes are a JSON object with a "type".
load(data) ==
    IF data.form = "object" /\ data.type # None THEN Some(data) ELSE None

\* What the clients socket carries back.
ErrorReply(identity) ==
    [to |-> identity, type |-> "error", lobby_id |-> None, password |-> None]
CreatedLobbyReply(identity, id) ==
    [to |-> identity, type |-> "created_lobby", lobby_id |-> Some(id),
     password |-> Some(password_of(id))]
\* BaseLobby.send_state: the snapshot to every client of the lobby.
StateTo(id) ==
    {[to |-> c, type |-> "state", lobby_id |-> None, password |-> None] :
         c \in lobby_clients[id]}

\* The Manager is at its poll: no runner it has just signalled is still
\* to wake.
LifeManagerPolls == ~\E id \in lobbies : started[id] /\ joining[id]

\* A handler that returns early: nothing changes and nothing is sent.
Dropped ==
    /\ outbox' = {}
    /\ UNCHANGED <<manager_alive, lobbies, next_id, attached, lobby_clients,
                   closing, on_close, started, joining>>

\* An exception leaves handle_message and Manager.run; main() returns and
\* the process ends.
Raised ==
    /\ manager_alive' = FALSE
    /\ outbox' = {}
    /\ UNCHANGED <<lobbies, next_id, attached, lobby_clients, closing, on_close, started, joining>>

\* The id the loop of Lobby.create settles on.
NewId ==
    CHOOSE n \in next_id..(MaxCreated - 1) :
        n \notin lobbies /\ \A m \in next_id..(n - 1) : m \in lobbies

\* Mutant of life_create_lobby: Lobby.create without its limit test.
life_create_lobby_NoLimit(identity) ==
    /\ lobbies' = lobbies \cup {NewId}
    /\ next_id' = NewId + 1
    /\ closing' = [closing EXCEPT ![NewId] = "pending"]
    /\ outbox' = {CreatedLobbyReply(identity, NewId)}
    /\ UNCHANGED <<manager_alive, attached, lobby_clients, on_close, started, joining>>

\* Manager.handle_create_lobby, Lobby.create and BaseLobby.__init__ (whose
\* _check_empty starts the close timer of the new, empty lobby).
life_create_lobby(identity) ==
    IF Cardinality(lobbies) >= MaxLobbyCount
    THEN /\ outbox' = {ErrorReply(identity)}
         /\ UNCHANGED <<manager_alive, lobbies, next_id, attached,
                        lobby_clients, closing, on_close, started,
                        joining>>
    ELSE /\ lobbies' = lobbies \cup {NewId}
         /\ next_id' = NewId + 1
         /\ closing' = [closing EXCEPT ![NewId] = "pending"]
         /\ outbox' = {CreatedLobbyReply(identity, NewId)}
         /\ UNCHANGED <<manager_alive, attached, lobby_clients, on_close, started, joining>>

\* Manager.handle_start_round and Lobby.on_start_round.
life_start_round(lobby_id, password, level_id) ==
    IF \/ lobby_id.kind # "int"
       \/ lobby_id.n \notin lobbies
       \/ password # password_of(lobby_id.n)
       \/ get_level_filename(level_id.n) = None
       \/ started[lobby_id.n]
    THEN Dropped
    ELSE /\ started' = [started EXCEPT ![lobby_id.n] = TRUE]
         /\ outbox' = {}
         /\ UNCHANGED <<manager_alive, lobbies, next_id, attached,
                        lobby_clients, closing, on_close, joining>>

\* Mutant of life_join: handle_join without its duplicate test.
life_join_NoDuplicateCheck(identity, lobby_id) ==
    IF \/ lobby_id.kind # "int"
       \/ lobby_id.n \notin lobbies
    THEN Dropped
    ELSE LET id == lobby_id.n
         IN  /\ attached' = [attached EXCEPT
                                 ![identity] = Some([lobby |-> id, user |-> None])]
             /\ lobby_clients' = [lobby_clients EXCEPT ![id] = @ \cup {identity}]
             /\ closing' = [closing EXCEPT ![id] = "none"]
             /\ outbox' = StateTo(id) \cup
                    {[to |-> identity, type |-> "state", lobby_id |-> None,
                      password |-> None]}
             /\ UNCHANGED <<manager_alive, lobbies, next_id, on_close, started, joining>>

\* Mutant of life_join: on_join leaves the close timer running.
life_join_KeepsTimer(identity, lobby_id) ==
    IF \/ attached[identity] # None
       \/ lobby_id.kind # "int"
       \/ lobby_id.n \notin lobbies
    THEN Dropped
    ELSE LET id == lobby_id.n
         IN  /\ attached' = [attached EXCEPT
                                 ![identity] = Some([lobby |-> id, user |-> None])]
             /\ lobby_clients' = [lobby_clients EXCEPT ![id] = @ \cup {identity}]
             /\ outbox' = StateTo(id) \cup
                    {[to |-> identity, type |-> "state", lobby_id |-> None,
                      password |-> None]}
             /\ UNCHANGED <<manager_alive, lobbies, next_id, closing,
                            on_close, started, joining>>

\* Manager.handle_join and BaseLobby.on_join.
life_join(identity, lobby_id) ==
    IF \/ attached[identity] # None
       \/ lobby_id.kind # "int"
       \/ lobby_id.n \notin lobbies
    THEN Dropped
    ELSE LET id == lobby_id.n
         IN  /\ attached' = [attached EXCEPT
                                 ![identity] = Some([lobby |-> id, user |-> None])]
             /\ lobby_clients' = [lobby_clients EXCEPT ![id] = @ \cup {identity}]
             /\ closing' = [closing EXCEPT ![id] = "none"]
             /\ outbox' = StateTo(id) \cup
                    {[to |-> identity, type |-> "state", lobby_id |-> None,
                      password |-> None]}
             /\ UNCHANGED <<manager_alive, lobbies, next_id, on_close, started, joining>>

\* Mutant of life_leave: on_leave does not take the client out of the
\* lobby's clients.
life_leave_KeepsLobbyClient(identity) ==
    IF attached[identity] = None
    THEN Dropped
    ELSE LET id == Get(attached[identity]).lobby
             left == lobby_clients[id] \ {identity}
         IN  /\ attached' = [attached EXCEPT ![identity] = None]
             /\ lobby_clients' = lobby_clients
             /\ closing' = IF left = {}
                           THEN [closing EXCEPT ![id] = "pending"]
                           ELSE closing
             /\ outbox' = {m \in StateTo(id) : m.to # identity}
             /\ UNCHANGED <<manager_alive, lobbies, next_id, on_close, started, joining>>

\* Manager.handle_leave, BaseLobby.on_leave and _check_empty.
life_leave(identity) ==
    IF attached[identity] = None
    THEN Dropped
    ELSE LET id == Get(attached[identity]).lobby
             left == lobby_clients[id] \ {identity}
         IN  /\ attached' = [attached EXCEPT ![identity] = None]
             /\ lobby_clients' = [lobby_clients EXCEPT ![id] = left]
             /\ closing' = IF left = {}
                           THEN [closing EXCEPT ![id] = "pending"]
                           ELSE closing
             /\ outbox' = {m \in StateTo(id) : m.to # identity}
             /\ UNCHANGED <<manager_alive, lobbies, next_id, on_close, started, joining>>

\* Manager.handle_login, User.create, Client.login and Lobby.on_login.
\* Lobby.users, which on_login extends, belongs to the game: the
\* one-lobby view follows it (handle_login).
life_login(identity, user_id) ==
    IF attached[identity] = None \/ fetch_name(user_id.n) = None
    THEN Dropped
    ELSE LET id == Get(attached[identity]).lobby
         IN  /\ attached' = [attached EXCEPT
                                 ![identity] = Some([lobby |-> id,
                                                     user |-> Some(user_id.n)])]
             /\ outbox' = IF joining[id] THEN StateTo(id) ELSE {}
             /\ UNCHANGED <<manager_alive, lobbies, next_id, lobby_clients,
                            closing, on_close, started, joining>>

\* Manager.handle_logout, Client.logout and Lobby.on_logout.
life_logout(identity) ==
    IF attached[identity] = None
    THEN Dropped
    ELSE /\ attached' = [attached EXCEPT
                             ![identity] = Some([lobby |-> Get(@).lobby,
                                                 user |-> None])]
         /\ outbox' = {}
         /\ UNCHANGED <<manager_alive, lobbies, next_id, lobby_clients,
                        closing, on_close, started, joining>>

\* The exceptions of Manager.handle_message and the handlers it calls:
\* message[key] for a key the dict lacks (KeyError), an array as the key
\* of Lobby.lobbies (TypeError: unhashable), and 1 <= id in
\* User._fetch_name for an id that is not a number (TypeError).
Raises(identity, message) ==
    LET type == Get(message.type)
        Kind(field) == IF field = None THEN "missing" ELSE Get(field).kind
    IN  \/ /\ type = "start_round"
           /\ \/ "missing" \in {Kind(message.lobby_id), Kind(message.password),
                                Kind(message.level_id), Kind(message.mode)}
              \/ Kind(message.lobby_id) = "list"
        \/ /\ type = "join"
           /\ \/ Kind(message.lobby_id) = "missing"
              \/ attached[identity] = None /\ Kind(message.lobby_id) = "list"
        \/ /\ type = "login"
           /\ \/ Kind(message.user_id) = "missing"
              \/ attached[identity] # None /\ Kind(message.user_id) # "int"

\* Manager.handle_message.  A create_lobby goes on into the second chain
\* of tests and ends in its else branch, which only logs.
handle_message(identity, message) ==
    LET type == Get(message.type)
    IN  IF Raises(identity, message) THEN Raised
        ELSE CASE type = "create_lobby" -> life_create_lobby(identity)
               [] type = "start_round" ->
                      life_start_round(Get(message.lobby_id),
                                       Get(message.password),
                                       Get(message.level_id))
               [] type = "join" -> life_join(identity, Get(message.lobby_id))
               [] type = "leave" -> life_leave(identity)
               [] type = "login" -> life_login(identity, Get(message.user_id))
               [] type = "logout" -> life_logout(identity)
               [] OTHER -> Dropped

\* The model stops creating lobbies when the ids run out.
WithinIds(data) ==
    data.type = Some("create_lobby") /\ Cardinality(lobbies) < MaxLobbyCount
        => next_id < MaxCreated

\* One turn of the loop of Manager.run on a client message.
Receive(identity, data) ==
    /\ manager_alive
    /\ delivery = None
    /\ LifeManagerPolls
    /\ WithinIds(data)
    /\ IF load(data) = None
       THEN Dropped
       ELSE handle_message(identity, Get(load(data)))
    /\ UNCHANGED <<game_vars, ingest_vars, bus_vars>>

\* Lobby._run wakes on the start signal and closes the lobby to logins;
\* _run_game begins and broadcasts the warmup.
RunnerWakes(id) ==
    /\ manager_alive
    /\ id \in lobbies
    /\ started[id] /\ joining[id]
    /\ joining' = [joining EXCEPT ![id] = FALSE]
    /\ outbox' = StateTo(id)
    /\ UNCHANGED <<game_vars, side_vars, manager_alive, lobbies, next_id, attached,
                   lobby_clients, closing, on_close, started>>

\* _run_game returns and _run resets: the snapshot, the start signal
\* cleared, logins open again.
GameOver(id) ==
    /\ manager_alive
    /\ id \in lobbies
    /\ started[id] /\ ~joining[id]
    /\ started' = [started EXCEPT ![id] = FALSE]
    /\ joining' = [joining EXCEPT ![id] = TRUE]
    /\ outbox' = StateTo(id)
    /\ UNCHANGED <<game_vars, side_vars, manager_alive, lobbies, next_id, attached,
                   lobby_clients, closing, on_close>>

\* close() of _check_empty: the sleep of EMPTY_LOBBY_TIMEOUT ends without
\* the task having been cancelled, and on_close is set.
TimerFires(id) ==
    /\ manager_alive
    /\ closing[id] = "pending"
    /\ closing' = [closing EXCEPT ![id] = "done"]
    /\ on_close' = [on_close EXCEPT ![id] = TRUE]
    /\ outbox' = {}
    /\ UNCHANGED <<game_vars, side_vars, manager_alive, lobbies, next_id, attached,
                   lobby_clients, started, joining>>

\* BaseLobby.run resumes once on_close.wait() has completed, cancels the
\* runner and returns; run_lobby deletes the lobby from the table.  A few
\* turns of the loop lie between on_close.set() and this step.
CloseLobby(id) ==
    /\ manager_alive
    /\ on_close[id]
    /\ id \in lobbies
    /\ lobbies' = lobbies \ {id}
    /\ outbox' = {}
    /\ UNCHANGED <<game_vars, side_vars, manager_alive, next_id, attached, lobby_clients,
                   closing, on_close, started, joining>>

\* ------------------------------------------------------------- ingester
\* dustkid_events.  The response body is a sequence of bytes over a small
\* alphabet: the record separator 0x1E and two other bytes.
RS == "0x1E"
Bytes == {RS, "a", "b"}

\* The longest response body of one connection.
MaxStream == 6

\* The largest backoff_seconds a stream end may still double.
MaxBackoff == 4

DEFAULT_BACKOFF_SECONDS == 1

Streams == UNION {[1..n -> Bytes] : n \in 0..MaxStream}

\* Event.parse_raw: the one record that is the JSON of an Event.  A part
\* of it, and it with more bytes around, raise ValueError.
EventRecords == {<<"a", "b">>}
Parses(record) == record \in EventRecords

\* bytes.split(b"\x1e"): the pieces between the separators, one more than
\* there are separators.
RECURSIVE split(_)
split(bytes) ==
    IF \A k \in DOMAIN bytes : bytes[k] # RS
    THEN <<bytes>>
    ELSE LET k == CHOOSE j \in DOMAIN bytes :
                      bytes[j] = RS /\ \A h \in 1..(j - 1) : bytes[h] # RS
         IN  <<SubSeq(bytes, 1, k - 1)>> \o split(SubSeq(bytes, k + 1, Len(bytes)))

\* *events, buffer = buffer.split(b"\x1e")
EventsOf(bytes) == SubSeq(split(bytes), 1, Len(split(bytes)) - 1)
TailOf(bytes) == split(bytes)[Len(split(bytes))]

\* The records of the for loop that reach socket.send: not empty, and
\* parsed.
Publishable(events) == SelectSeq(events, LAMBDA event : event # <<>> /\ Parses(event))

\* session.get returns a response.
Connect ==
    /\ ingest_pc = "connect"
    /\ \E stream \in Streams : upstream' = stream
    /\ delivered' = <<>>
    /\ buffer' = <<>>
    /\ published' = <<>>
    /\ ingest_pc' = "stream"
    /\ UNCHANGED <<backoff_seconds, sleep_seconds, context_closed, broker_vars,
                   gateway_vars, bus_vars>>

\* session.get raises (the connection is refused or reset, the name does
\* not resolve): nothing in dustkid_events catches it.
ConnectFails ==
    /\ ingest_pc = "connect"
    /\ ingest_pc' = "raised"
    /\ UNCHANGED <<upstream, delivered, buffer, published, backoff_seconds,
                   sleep_seconds, context_closed, broker_vars,
                   gateway_vars, bus_vars>>

\* Mutant of Chunk: the buffer is not carried over to the next chunk.
ChunkDropsTail ==
    /\ ingest_pc = "stream"
    /\ ~context_closed
    /\ \E n \in 1..Len(upstream) :
           LET chunk == SubSeq(upstream, 1, n)
           IN  /\ upstream' = SubSeq(upstream, n + 1, Len(upstream))
               /\ delivered' = delivered \o chunk
               /\ buffer' = <<>>
               /\ published' = published \o Publishable(EventsOf(buffer \o chunk))
    /\ backoff_seconds' = DEFAULT_BACKOFF_SECONDS
    /\ UNCHANGED <<ingest_pc, sleep_seconds, context_closed, broker_vars,
                   gateway_vars, bus_vars>>

\* One pass of the async for: a chunk of any length arrives while the
\* context is open, its complete records are handled and the tail is kept.
Chunk ==
    /\ ingest_pc = "stream"
    /\ ~context_closed
    /\ \E n \in 1..Len(upstream) :
           LET chunk == SubSeq(upstream, 1, n)
           IN  /\ upstream' = SubSeq(upstream, n + 1, Len(upstream))
               /\ delivered' = delivered \o chunk
               /\ buffer' = TailOf(buffer \o chunk)
               /\ published' = published \o Publishable(EventsOf(buffer \o chunk))
    /\ backoff_seconds' = DEFAULT_BACKOFF_SECONDS
    /\ UNCHANGED <<ingest_pc, sleep_seconds, context_closed, broker_vars,
                   gateway_vars, bus_vars>>

\* A chunk arrives while the context is open, and the context is terminated
\* during one of its socket.send calls: the records before that one are
\* published, and dustkid_events returns.
ChunkTerminated ==
    /\ ingest_pc = "stream"
    /\ ~context_closed
    /\ \E n \in 1..Len(upstream) :
           LET chunk == SubSeq(upstream, 1, n)
               sends == Publishable(EventsOf(buffer \o chunk))
           IN  /\ sends # <<>>
               /\ upstream' = SubSeq(upstream, n + 1, Len(upstream))
               /\ delivered' = delivered \o chunk
               /\ buffer' = TailOf(buffer \o chunk)
               /\ \E k \in 0..(Len(sends) - 1) :
                      published' = published \o SubSeq(sends, 1, k)
    /\ context_closed' = TRUE
    /\ ingest_pc' = "returned"
    /\ UNCHANGED <<backoff_seconds, sleep_seconds, broker_vars,
                   gateway_vars, bus_vars>>

\* A chunk arrives after the context was closed: dustkid_events closes its
\* socket and returns.
ChunkAfterClose ==
    /\ ingest_pc = "stream"
    /\ context_closed
    /\ upstream # <<>>
    /\ ingest_pc' = "returned"
    /\ UNCHANGED <<upstream, delivered, buffer, published, backoff_seconds,
                   sleep_seconds, context_closed, broker_vars,
                   gateway_vars, bus_vars>>

\* The response body ends: the async for is over, and the sleep starts.
StreamEnds ==
    /\ ingest_pc = "stream"
    /\ upstream = <<>>
    /\ backoff_seconds <= MaxBackoff
    /\ sleep_seconds' = backoff_seconds
    /\ ingest_pc' = "sleep"
    /\ UNCHANGED <<upstream, delivered, buffer, published, backoff_seconds,
                   context_closed, broker_vars,
                   gateway_vars, bus_vars>>

\* iter_any raises in the middle of the body (the connection is reset, the
\* payload is cut short): nothing in dustkid_events catches it.
StreamFails ==
    /\ ingest_pc = "stream"
    /\ ingest_pc' = "raised"
    /\ UNCHANGED <<upstream, delivered, buffer, published, backoff_seconds,
                   sleep_seconds, context_closed, broker_vars,
                   gateway_vars, bus_vars>>

\* The sleep is over: the backoff doubles, and the loop connects again.
Wake ==
    /\ ingest_pc = "sleep"
    /\ backoff_seconds' = backoff_seconds * 2
    /\ ingest_pc' = "connect"
    /\ UNCHANGED <<upstream, delivered, buffer, published, sleep_seconds,
                   context_closed, broker_vars,
                   gateway_vars, bus_vars>>

\* The context is closed while dustkid_events is suspended.
CloseContext ==
    /\ ingest_pc \in {"connect", "stream", "sleep"}
    /\ ~context_closed
    /\ context_closed' = TRUE
    /\ UNCHANGED <<ingest_pc, upstream, delivered, buffer, published,
                   backoff_seconds, sleep_seconds, broker_vars,
                   gateway_vars, bus_vars>>

\* dustkid_events before its loop.
IngestInit ==
    /\ ingest_pc = "connect"
    /\ upstream = <<>>
    /\ delivered = <<>>
    /\ buffer = <<>>
    /\ published = <<>>
    /\ backoff_seconds = DEFAULT_BACKOFF_SECONDS
    /\ sleep_seconds = 0
    /\ context_closed = FALSE

\* -------------------------------------------------------------- gateway
\* WebsocketHandler, one per websocket; the identity of its DEALER socket
\* is the identity the Manager sees.

\* The most messages of one DEALER socket that wait at the Manager.
MaxInflight == 2

\* The query of the request path, by what run makes of it: urlparse raises
\* ValueError ("invalid"), there is no lobby parameter ("absent"), its
\* value is not an integer ("text"), or it is the integer n ("int").
Query(kind, n) == [kind |-> kind, n |-> n]
Queries ==
    {Query(k, 0) : k \in {"invalid", "absent", "text"}}
    \cup {Query("int", n) : n \in CreatedIds}

\* int(params["lobby"][0]), None where it raises.
lobby_id_of(query) == IF query.kind = "int" THEN Some(query.n) ELSE None

\* The frames a browser sends in the model: a logout, a join without
\* lobby_id, a ping, and bytes that are not JSON.
Frames ==
    {OnlyType(Some("logout")), OnlyType(Some("join")), OnlyType(Some("ping")),
     NotObject("text")}

\* messages.dump_bytes of a loaded message: the JSON object with the keys
\* and values of the dict.
dump_bytes(message) ==
    Object(message.type, message.lobby_id, message.password, message.level_id,
           message.mode, message.user_id)

\* backend.send: the message is queued behind those of this socket that
\* the Manager has not received yet.
Send(identity, data) ==
    inflight' = [inflight EXCEPT ![identity] = Append(@, data)]

\* A socket of the model has room for one more message.
Room(identity) == Len(inflight[identity]) < MaxInflight

\* run up to its loop: the path is parsed, and create or join is sent.
Accept(identity, query) ==
    /\ ws_state[identity] = "idle"
    /\ Room(identity)
    /\ IF query.kind = "invalid"
       THEN /\ ws_state' = [ws_state EXCEPT ![identity] = "returned"]
            /\ UNCHANGED <<ws_opened, inflight>>
       ELSE IF lobby_id_of(query) = None
       THEN /\ Send(identity, OnlyType(Some("create")))
            /\ ws_opened' = [ws_opened EXCEPT ![identity] = "create"]
            /\ ws_state' = [ws_state EXCEPT ![identity] = "open"]
       ELSE /\ Send(identity, JoinMessage(Num(Get(lobby_id_of(query)))))
            /\ ws_opened' = [ws_opened EXCEPT ![identity] = "join"]
            /\ ws_state' = [ws_state EXCEPT ![identity] = "open"]
    /\ UNCHANGED <<broker_vars, ingest_vars, bus_vars>>

\* handle_websocket_event: a frame that does not load is dropped, a ping is
\* answered on the websocket, every other message goes to the Manager.
Frame(identity, data) ==
    /\ ws_state[identity] = "open"
    /\ Room(identity)
    /\ IF load(data) = None \/ data.type = Some("ping")
       THEN UNCHANGED inflight
       ELSE Send(identity, dump_bytes(Get(load(data))))
    /\ UNCHANGED <<ws_state, ws_opened, broker_vars, ingest_vars, bus_vars>>

\* Mutant of Close: run returns without sending leave.
CloseWithoutLeave(identity) ==
    /\ ws_state[identity] = "open"
    /\ Room(identity)
    /\ UNCHANGED inflight
    /\ ws_state' = [ws_state EXCEPT ![identity] = "returned"]
    /\ UNCHANGED <<ws_opened, broker_vars, ingest_vars, bus_vars>>

\* The websocket closes, normally (wait_closed) or with an exception out of
\* the loop: the finally clause sends leave, and run is over.
Close(identity) ==
    /\ ws_state[identity] = "open"
    /\ Room(identity)
    /\ Send(identity, OnlyType(Some("leave")))
    /\ ws_state' = [ws_state EXCEPT ![identity] = "returned"]
    /\ UNCHANGED <<ws_opened, broker_vars, ingest_vars, bus_vars>>

\* The Manager receives the oldest message of a DEALER socket.
Deliver(identity) ==
    /\ inflight[identity] # <<>>
    /\ Receive(identity, Head(inflight[identity]))
    /\ inflight' = [inflight EXCEPT ![identity] = Tail(@)]
    /\ UNCHANGED <<ws_state, ws_opened>>

\* The HTTP gateway's create_lobby reaches the Manager.
HttpCreateLobby ==
    /\ Receive("http", OnlyType(Some("create_lobby")))
    /\ UNCHANGED gateway_vars

\* No websocket has been accepted yet.
GatewayInit ==
    /\ ws_state = [i \in LifeIdentities |-> "idle"]
    /\ ws_opened = [i \in LifeIdentities |-> "none"]
    /\ inflight = [i \in LifeIdentities |-> <<>>]

\* ------------------------------------------------------------------ bus
\* The events socket of the Manager and handle_dustkid_event.  An event is
\* named by its place in the order the ingester published it.

\* The events published in one behaviour.
MaxEvents == 2

\* list(Lobby.lobbies.values()): the lobbies of the table in insertion
\* order, which is the order of their ids, since Lobby.create hands out
\* ids from a counter that only grows.
RECURSIVE InsertionOrder(_)
InsertionOrder(ids) ==
    IF ids = {} THEN <<>>
    ELSE LET first == CHOOSE id \in ids : \A other \in ids : id <= other
         IN  <<first>> \o InsertionOrder(ids \ {first})

\* The ingester's socket.send: the event waits at the events socket.
Publish ==
    /\ next_event <= MaxEvents
    /\ bus' = Append(bus, next_event)
    /\ next_event' = next_event + 1
    /\ UNCHANGED <<delivery, deliveries, receipts, broker_vars, ingest_vars,
                   gateway_vars>>

\* The for loop of handle_dustkid_event over what is left of its list, up
\* to the point where a call of on_dustkid_event suspends or the list is
\* at its end.
DeliverTo(event, rest) ==
    /\ deliveries' = Append(deliveries, [event |-> event, lobby |-> Head(rest)])
    /\ delivery' = IF Tail(rest) = <<>>
                   THEN None
                   ELSE Some([event |-> event, rest |-> Tail(rest)])

\* Mutant of ReceiveEvent: the next event is taken up while the lobbies of
\* the one before are still being called.
ReceiveEventDuringDelivery ==
    /\ manager_alive
    /\ bus # <<>>
    /\ bus' = Tail(bus)
    /\ receipts' = Append(receipts, [event |-> Head(bus), live |-> lobbies])
    /\ IF lobbies = {}
       THEN UNCHANGED <<delivery, deliveries>>
       ELSE DeliverTo(Head(bus), InsertionOrder(lobbies))
    /\ UNCHANGED <<next_event, broker_vars, ingest_vars, gateway_vars>>

\* Manager.run at its poll takes the oldest event from the events socket;
\* handle_dustkid_event lists the lobbies of the table and calls the first.
ReceiveEvent ==
    /\ manager_alive
    /\ delivery = None
    /\ bus # <<>>
    /\ bus' = Tail(bus)
    /\ receipts' = Append(receipts, [event |-> Head(bus), live |-> lobbies])
    /\ IF lobbies = {}
       THEN UNCHANGED <<delivery, deliveries>>
       ELSE DeliverTo(Head(bus), InsertionOrder(lobbies))
    /\ UNCHANGED <<next_event, broker_vars, ingest_vars, gateway_vars>>

\* handle_dustkid_event resumes after the send_state of the lobby it called
\* last, and calls the next lobby of its list.
DeliverNext ==
    /\ manager_alive
    /\ delivery # None
    /\ DeliverTo(Get(delivery).event, Get(delivery).rest)
    /\ UNCHANGED <<bus, next_event, receipts, broker_vars, ingest_vars,
                   gateway_vars>>

\* No event has been published.
BusInit ==
    /\ bus = <<>>
    /\ next_event = 1
    /\ delivery = None
    /\ deliveries = <<>>
    /\ receipts = <<>>

\* ------------------------------------------------------- specification
GameInit ==
    /\ barren = FALSE
    /\ manager_clients = <<>>
    /\ clients = {}
    /\ users = {}
    /\ allow_joining = TRUE
    /\ level = None
    /\ condition = None
    /\ scores = <<>>
    /\ start_round = FALSE
    /\ eliminated = {}
    /\ warmup_end = None
    /\ break_end = None
    /\ round_end = None
    /\ pc = "wait"
    /\ send_task = FALSE
    /\ now = 0
    /\ sent = FALSE

\* No client is attached, and no lobby of the table view has clients, a
\* timer or a start signal.
NoClients ==
    /\ manager_alive = TRUE
    /\ attached = [i \in LifeIdentities |-> None]
    /\ lobby_clients = [id \in CreatedIds |-> {}]
    /\ closing = [id \in CreatedIds |-> "none"]
    /\ on_close = [id \in CreatedIds |-> FALSE]
    /\ started = [id \in CreatedIds |-> FALSE]
    /\ joining = [id \in CreatedIds |-> TRUE]
    /\ outbox = {}

\* The one-lobby view: lobby 0 has been created and stays in the table.
Init ==
    /\ GameInit
    /\ NoClients
    /\ IngestInit
    /\ GatewayInit
    /\ BusInit
    /\ lobbies = {0}
    /\ next_id = 1

\* The Manager is at its poll.  An accepted start_round sets the start
\* signal, which puts the runner on the loop's ready queue; the Manager
\* then suspends in poller.poll(), so the runner wakes before the Manager
\* receives its next client message.  A Dustkid event polled together with
\* the start_round is still handled first.
ManagerPolls == ~(start_round /\ pc = "wait")

\* A join without a lobby_id, which the gateway forwards as it does every
\* typed object, reaches the Manager: handle_message raises on it.
ManagerCrash ==
    /\ manager_alive
    /\ ManagerPolls
    /\ load(OnlyType(Some("join"))) # None
    /\ \A i \in LifeIdentities : Raises(i, Get(load(OnlyType(Some("join")))))
    /\ manager_alive' = FALSE
    /\ sent' = FALSE
    /\ UNCHANGED <<manager_clients, clients, users, allow_joining, level,
                   condition, scores, start_round, eliminated, warmup_end,
                   break_end, round_end, pc, send_task, now, life_vars,
                   barren, side_vars>>

\* The process is up, and the step is one of the one-lobby view.
Live == manager_alive /\ UNCHANGED <<manager_alive, life_vars, barren, side_vars>>

\* The step is the elimination step: it is recorded whether the round ends
\* with no score among the remaining players (out = remaining, reset to the
\* empty set).  The clock ends the model after one game, so the record is
\* of the rounds of that game.
LiveRound ==
    /\ manager_alive
    /\ UNCHANGED <<manager_alive, life_vars, side_vars>>
    /\ barren' = (barren \/ remaining \cap ScoreKeys(scores) = {})

Next ==
    \/ Live /\ ManagerPolls /\
           \E i \in Identities, l \in LobbyIds : handle_join(i, l)
    \/ Live /\ ManagerPolls /\ \E i \in Identities : handle_leave(i)
    \/ Live /\ ManagerPolls /\
           \E i \in Identities, u \in LoginIds : handle_login(i, u)
    \/ Live /\ ManagerPolls /\ \E i \in Identities : handle_logout(i)
    \/ Live /\ ManagerPolls /\
           \E l \in LobbyIds, p \in Passwords, id \in LevelIds, m \in Modes :
               handle_start_round(l, p, id, m)
    \/ Live /\ \E e \in Events : on_dustkid_event(e)
    \/ Live /\ StartGame
    \/ Live /\ SendStateTask
    \/ Live /\ WarmupEnd
    \/ Live /\ BreakEnd
    \/ LiveRound /\ RoundEnd
    \/ Live /\ HoldEnd
    \/ Live /\ ResetSend
    \/ Live /\ ResetDone
    \/ ManagerCrash

Spec == Init /\ [][Next]_vars

\* The runner task is scheduled while the process is up: a sleep that can
\* end does end, a send_state it awaits completes, and a runner woken by
\* the start signal runs.
FairSpec ==
    /\ Spec
    /\ WF_vars(Live /\ StartGame)
    /\ WF_vars(Live /\ HoldEnd)
    /\ WF_vars(Live /\ ResetSend)
    /\ WF_vars(Live /\ ResetDone)

\* The lobby-table view: no lobby has been created yet, and the game
\* variables of the one-lobby view stay as they are.
LifeInit ==
    /\ GameInit
    /\ NoClients
    /\ IngestInit
    /\ GatewayInit
    /\ BusInit
    /\ lobbies = {}
    /\ next_id = 0

LifeNext ==
    \/ \E i \in LifeIdentities, data \in RawMessages :
           Receive(i, data) /\ UNCHANGED gateway_vars
    \/ \E id \in CreatedIds : RunnerWakes(id)
    \/ \E id \in CreatedIds : GameOver(id)
    \/ \E id \in CreatedIds : TimerFires(id)
    \/ \E id \in CreatedIds : CloseLobby(id)

LifeSpec == LifeInit /\ [][LifeNext]_vars

\* The loop runs every task that is ready: a woken runner runs, and
\* run_lobby resumes once on_close is set.
LifeFairSpec ==
    /\ LifeSpec
    /\ \A id \in CreatedIds : WF_vars(RunnerWakes(id))
    /\ \A id \in CreatedIds : WF_vars(CloseLobby(id))

\* The ingester's view: dustkid_events from its start, the Manager idle.
IngestNext ==
    \/ Connect
    \/ ConnectFails
    \/ Chunk
    \/ ChunkTerminated
    \/ ChunkAfterClose
    \/ StreamEnds
    \/ StreamFails
    \/ Wake
    \/ CloseContext

IngestSpec == LifeInit /\ [][IngestNext]_vars

\* The gateway's view: websockets are accepted, send frames and close; the
\* Manager receives what their sockets carry, and create_lobby from the
\* HTTP gateway; no round is started.
GatewayNext ==
    \/ \E i \in LifeIdentities, query \in Queries : Accept(i, query)
    \/ \E i \in LifeIdentities, data \in Frames : Frame(i, data)
    \/ \E i \in LifeIdentities : Close(i)
    \/ \E i \in LifeIdentities : Deliver(i)
    \/ HttpCreateLobby
    \/ \E id \in CreatedIds : TimerFires(id)
    \/ \E id \in CreatedIds : CloseLobby(id)

GatewaySpec == LifeInit /\ [][GatewayNext]_vars

\* The Manager receives what waits on its socket while it runs, and the
\* loop runs the tasks that are ready.
GatewayFairSpec ==
    /\ GatewaySpec
    /\ \A i \in LifeIdentities : WF_vars(Deliver(i))
    /\ \A id \in CreatedIds : WF_vars(TimerFires(id))
    /\ \A id \in CreatedIds : WF_vars(CloseLobby(id))

\* The bus's view: events are published and delivered while lobbies are
\* created and time out; a client message may be one the Manager raises on.
BusNext ==
    \/ Publish
    \/ ReceiveEvent
    \/ DeliverNext
    \/ \E data \in {OnlyType(Some("create_lobby")), OnlyType(Some("join"))} :
           Receive("c1", data) /\ UNCHANGED gateway_vars
    \/ \E id \in CreatedIds : TimerFires(id)
    \/ \E id \in CreatedIds : CloseLobby(id)

BusSpec == LifeInit /\ [][BusNext]_vars

\* ================================================================ claims

\* The stored score of a user, before and after a step.
Stored(user) == ScoreGet(scores, user)
StoredNext(user) == ScoreGet(scores', user)

\* new is strictly greater than old under the Score ordering key.
StrictlyBetter(old, new) == KeyLess(ss_key(old), ss_key(new))

\* C1: in every reachable state the keys of scores are a subset of the keys
\* of users, and eliminated is a subset of the keys of users.
C1_ScoresAndEliminatedWithinUsers ==
    /\ ScoreKeys(scores) \subseteq users
    /\ eliminated \subseteq users

\* C2: an event that passed the acceptance checks replaces scores[user] if
\* and only if there is no stored score for that user or the new score is
\* strictly greater than the stored one under the ordering key; otherwise
\* scores is left unchanged and no snapshot is sent.
C2_ReplacesIffStrictlyBetter ==
    [][\A e \in Events :
          (on_dustkid_event(e) /\ Accepted(e)) =>
              IF Stored(e.user) = None
                 \/ StrictlyBetter(Get(Stored(e.user)), from_dustkid_event(e))
              THEN StoredNext(e.user) = Some(from_dustkid_event(e))
              ELSE scores' = scores /\ ~sent']_vars

\* C3: within one round a stored score never gets worse: each new value of
\* scores[user] is greater than or equal to the previous one under the
\* ordering key.
C3_StoredScoreNeverWorsens ==
    [][\A u \in UserIds :
          (Stored(u) # None /\ StoredNext(u) # None) =>
              ~StrictlyBetter(Get(StoredNext(u)), Get(Stored(u)))]_vars
\* The conditions C4 lists for an event, read off the lobby's state.
C4_Conditions(e) ==
    /\ level # None /\ e.level = Get(level)
    /\ \/ condition = Some("any")
       \/ condition = Some("ss") /\ e.score_completion = 5 /\ e.score_finesse = 5
    /\ round_end # None
    /\ Get(round_end) - RoundTime <= e.timestamp
    /\ e.timestamp <= Get(round_end)

\* The step changes something other than resetting the sent flag.
ChangesOrSends ==
    ~(UNCHANGED <<lobby_vars, manager_clients, clients, pc, send_task, now>>
      /\ ~sent')

\* C4: on_event changes scores only if the lobby has a level and it is the
\* event's, the installed mode predicate accepts the event, round_end is set
\* and round_end - round_time <= timestamp <= round_end, both ends
\* inclusive (the handler's checks pass every event that meets them all); an
\* event failing any of them leaves the whole lobby state unchanged and
\* triggers no snapshot: a step of on_event that changes anything or sends
\* a snapshot is the step of an event that meets them all.
C4_EventChangesScoresOnlyInWindow ==
    /\ [](\A e \in Events : C4_Conditions(e) => Accepted(e))
    /\ [][ChangesOrSends =>
             \A e \in Events : ~C4_Conditions(e) => ~on_dustkid_event(e)]_vars

\* C4 witness: in mode ss a score is stored at each end of the round's
\* window, and the snapshot of the last one went out.
C4_Witness ==
    /\ round_end # None
    /\ condition = Some("ss")
    /\ \E i \in DOMAIN scores : scores[i].timestamp = Get(round_end)
    /\ \E i \in DOMAIN scores : scores[i].timestamp = Get(round_end) - RoundTime
    /\ sent

\* The step of _run_game that ends a round.
RoundEnds == pc = "round" /\ pc' # "round"

\* C5: at the end of a round every player in remaining who holds no score
\* is added to eliminated, provided at least one remaining player scored; a
\* single player left means Game-Over; scores is cleared after every
\* elimination step.
C5_NonScorersEliminated ==
    [][RoundEnds =>
          LET scored == remaining \cap ScoreKeys(scores)
              no_score == remaining \ ScoreKeys(scores)
          IN  /\ (scored # {} /\ no_score # {}) =>
                     eliminated' = eliminated \cup no_score
              /\ Cardinality(users \ eliminated') = 1 =>
                     (pc' = "hold" /\ break_end' = None /\ round_end' = None)
              /\ scores' = <<>>]_vars

\* C5 witness: of the users {1, 2, 3} only user 1 scored; 2 and 3 are
\* eliminated and the lobby is in Game-Over with user 1 left.
C5_Witness ==
    /\ pc = "hold"
    /\ users = {1, 2, 3}
    /\ eliminated = {2, 3}
    /\ scores = <<>>

\* C6: no round eliminates the whole field: when nobody in remaining scored
\* nothing is eliminated and another break and round start with later
\* deadlines; with at least one user, remaining is never empty.
C6_NeverEliminateEveryone ==
    /\ [](users # {} => remaining # {})
    /\ [][(RoundEnds /\ remaining \cap ScoreKeys(scores) = {}) =>
             /\ eliminated' = eliminated
             /\ pc' = "break"
             /\ break_end' # None /\ round_end' # None
             /\ Get(break_end') > Get(break_end)
             /\ Get(round_end') > Get(round_end)
             /\ Get(round_end') = Get(break_end') + RoundTime]_vars

\* C6 witness: a second break with nobody eliminated: the first round was
\* rerun because none of the remaining players had scored.
C6_Witness ==
    /\ pc = "break"
    /\ now = WarmupTime + CycleTime
    /\ Cardinality(users) > 1
    /\ eliminated = {}

\* C7: when every remaining player has scored, the one that goes out is the
\* one whose stored score has the latest timestamp, and among equal latest
\* timestamps the one whose scoring event was observed most recently, also
\* when the stored score was replaced: so right after an event of a
\* remaining player is stored during the round, with a timestamp no
\* earlier than any remaining player's, that player is the one the
\* elimination step takes out.
C7_LatestLastObservedGoesOut ==
    [][(pc = "round" /\ scores' # scores) =>
          \A e \in Events :
              (/\ on_dustkid_event(e)
               /\ e.user \in remaining
               /\ remaining \subseteq ScoreKeys(scores')
               /\ \A i \in DOMAIN scores' :
                     scores'[i].user \in remaining =>
                         scores'[i].timestamp <= e.timestamp)
              => Out(remaining, scores') = {e.user}]_vars

\* A game is in progress: from the accepted start_round until the runner
\* waits for the start signal again.
InProgress == start_round \/ pc # "wait"

\* C8: a lobby runs at most one game at a time: the running game holds the
\* start signal, and a start_round handled while a game is in progress
\* changes neither level, nor the scoring predicate, nor any deadline, nor
\* eliminated: a step that changes one of them while a game is in progress
\* is no step of handle_start_round.
C8_OneGameAtATime ==
    /\ [](pc # "wait" => start_round)
    /\ [][(InProgress
           /\ ~UNCHANGED <<level, condition, start_round, warmup_end, break_end,
                           round_end, eliminated>>) =>
             \A l \in LobbyIds, p \in Passwords, id \in LevelIds, m \in Modes :
                 ~handle_start_round(l, p, id, m)]_vars

\* C8 witness: a game is well in progress (a player is out and a round is
\* running) and the last step handled sent nothing, as a start_round
\* turned away does.
C8_Witness ==
    /\ pc = "round"
    /\ start_round
    /\ eliminated # {}
    /\ ~sent

\* The level id resolves to no level, by reuse or by lookup.
C9_Unresolvable(id) ==
    /\ get_level_filename(id) = None
    /\ level = None \/ LevelId(Get(level)) # Some(id)

\* C9: a start_round with a wrong password, or with a level_id that
\* resolves to no level, starts no round, changes no lobby state and sends
\* no snapshot: a step that changes anything or sends a snapshot is no step
\* of such a start_round.
C9_BadStartRoundChangesNothing ==
    [][ChangesOrSends =>
          \A l \in LobbyIds, p \in Passwords, id \in LevelIds, m \in Modes :
              (p # Password \/ C9_Unresolvable(id)) =>
                  ~handle_start_round(l, p, id, m)]_vars

\* C9 witness: users are logged in and waiting, no start_round was ever
\* accepted (the lobby has no level), and the last step sent no snapshot.
C9_Witness ==
    /\ pc = "wait"
    /\ level = None
    /\ ~start_round
    /\ users # {}
    /\ ~sent

C11_OneTimerGroupPerSnapshot ==
    sent =>
        /\ ~(/\ lobby_state.warmup_timer # None
             /\ \/ lobby_state.break_timer # None
                \/ lobby_state.round_timer # None)
        /\ lobby_state.break_timer # None <=> lobby_state.round_timer # None

\* C11 witness: a snapshot with the warmup timer went out while a client
\* is logged in during the warmup.
C11_Witness ==
    /\ sent
    /\ lobby_state.warmup_timer # None
    /\ pc = "warmup"
    /\ users # {}

\* C12: in every reachable state and every snapshot, round_end
\* (round_timer) set implies level set; a lobby without a level has no
\* active round.
C12_RoundImpliesLevel ==
    /\ round_end # None => level # None
    /\ lobby_state.round_timer # None => lobby_state.level # None
    /\ level = None => pc \notin {"break", "round"}

\* C12 witness: a snapshot with a round timer and a level went out during
\* a round.
C12_Witness ==
    /\ sent
    /\ pc = "round"
    /\ lobby_state.round_timer # None
    /\ lobby_state.level # None


\* A login that reaches Lobby.on_login: the client is attached and the
\* user id resolves to a user.
LoginSucceeds(identity, user_id) ==
    identity \in DOMAIN manager_clients /\ fetch_name(user_id) # None

\* What C13 says of logins: one handled while a game is in progress adds
\* no user and sends no snapshot; a successful one between games adds the
\* user.
C13_Logins ==
    /\ [][(InProgress /\ (users' # users \/ sent')) =>
             \A i \in Identities, u \in LoginIds : ~handle_login(i, u)]_vars
    /\ [][~InProgress =>
             \A i \in Identities, u \in LoginIds :
                 (LoginSucceeds(i, u) /\ handle_login(i, u)) => u \in users']_vars

\* C13, as claimed: allow_joining is false from the accepted start_round
\* until the lobby is back in Idle and true between games, and logins are
\* ignored during a game and add the user between games.
C13_ClosedFromAcceptedStart ==
    /\ [](InProgress => ~allow_joining)
    /\ [](~InProgress => allow_joining)
    /\ C13_Logins

\* C13, amended: allow_joining is false from the runner's wake-up on the
\* start signal until the lobby is back in Idle, and true between games
\* and in the state right after the accepted start_round, which the runner
\* leaves before the Manager handles its next client message; logins are
\* ignored during a game and add the user between games.
C13_ClosedFromRunnerWakeup ==
    /\ [](pc # "wait" => ~allow_joining)
    /\ [](pc = "wait" => allow_joining)
    /\ [](ManagerPolls => (InProgress <=> ~allow_joining))
    /\ C13_Logins

\* C13 witness: during a warmup the client's login was handled (the
\* client holds a user) and ignored by the lobby: the user is not in
\* users and no snapshot went out.
C13_Witness ==
    /\ pc = "warmup"
    /\ "c1" \in DOMAIN manager_clients
    /\ manager_clients["c1"] # None
    /\ Get(manager_clients["c1"]) \notin users
    /\ users # {}
    /\ ~sent

\* The lobby is in Idle, reset for a new game.
IdleAndReset ==
    /\ pc = "wait" /\ ~start_round
    /\ eliminated = {}
    /\ allow_joining
    /\ warmup_end = None /\ break_end = None /\ round_end = None

\* C14: after Game-Over the lobby returns to Idle once the 10 s hold has
\* elapsed, with eliminated empty, allow_joining true and all deadlines
\* none; the next start_round with the right password and a resolvable
\* level is then accepted and starts a new warmup.  The two leads-to
\* parts fail when the Manager raises during the hold or before the
\* runner wakes; with ~manager_alive added as an outcome they hold.
C14_GameOverReturnsToIdle ==
    /\ (pc = "hold") ~> IdleAndReset
    /\ [][(pc = "hold" /\ pc' # "hold") => now' = now + GameOverHold]_vars
    /\ [](~InProgress => IdleAndReset)
    /\ [][~InProgress =>
             \A id \in LevelIds, m \in Modes :
                 (~C9_Unresolvable(id) /\ handle_start_round(0, Password, id, m))
                     => (start_round' /\ level' # None
                         /\ LevelId(Get(level')) = Some(id))]_vars
    /\ (start_round /\ pc = "wait") ~> (pc = "warmup" /\ warmup_end # None)

\* The warmup of a second game, started after the first game went through
\* Game-Over and back to Idle: the case of C14 while the process is up.
C14_Witness ==
    /\ pc = "warmup"
    /\ now >= WarmupTime + GameOverHold
    /\ warmup_end = Some(now + WarmupTime)
    /\ users # {}
    /\ eliminated = {}

\* ------------------------------------------------------------------ C15
\* The close timer of a lobby is running.
TimerRuns(id) == closing[id] = "pending"

\* C15: a lobby with at least one attached client is never removed from
\* the lobby table: every lobby that has clients is in the table, the
\* empty-lobby timer runs only while the lobby has no client, and a step
\* that attaches a client while the timer runs cancels it, so that
\* on_close is not set by it.
C15_AttachedLobbyStaysInTable ==
    /\ [](\A id \in CreatedIds : lobby_clients[id] # {} => id \in lobbies)
    /\ [](\A id \in CreatedIds : TimerRuns(id) => lobby_clients[id] = {})
    /\ [][\A id \in CreatedIds :
              TimerRuns(id) /\ lobby_clients'[id] # {}
                  => ~TimerRuns(id)' /\ on_close'[id] = on_close[id]]_vars

\* ------------------------------------------------------------------ C16
\* The lobby was created and is no longer in the table.
Removed(id) == id < next_id /\ id \notin lobbies

\* A start_round or join that names the lobby.
Names(data, id) ==
    /\ data.type \in {Some("start_round"), Some("join")}
    /\ data.lobby_id = Some(Num(id))

\* C16: a lobby whose close timer has run out (its clients were empty for
\* EMPTY_LOBBY_TIMEOUT with no attach in between: on_close is set) is
\* eventually removed from the lobby table, whether a game is in progress
\* in it or nobody ever joined it; a removed lobby never returns, and a
\* start_round or join that names it changes nothing and sends nothing.
C16_ExpiredLobbyIsRemoved ==
    /\ \A id \in CreatedIds : (on_close[id] /\ id \in lobbies) ~> Removed(id)
    /\ [][\A id \in CreatedIds : Removed(id) => Removed(id)']_vars
    /\ [][\A id \in CreatedIds :
              Removed(id) =>
                  \A i \in LifeIdentities, data \in RawMessages :
                      Names(data, id) /\ Receive(i, data) =>
                          /\ outbox' = {}
                          /\ UNCHANGED <<manager_alive, lobbies, next_id,
                                         attached, lobby_clients, closing, on_close, started,
                                         joining>>]_vars

\* ------------------------------------------------------------------ C17
\* The Manager handles a create_lobby of the client.
CreateLobbyFrom(identity) == Receive(identity, OnlyType(Some("create_lobby")))

\* C17: the lobby table never holds more than MAX_LOBBY_COUNT lobbies; a
\* create_lobby handled while the table is full is answered with error
\* and changes nothing; a create_lobby handled below the limit adds one
\* lobby, under an id that no live lobby has, and is answered with one
\* created_lobby that carries this id and the password of the new lobby.
C17_LobbyCountWithinLimit ==
    /\ [](Cardinality(lobbies) <= MaxLobbyCount)
    /\ [][\A i \in LifeIdentities :
              CreateLobbyFrom(i) =>
                  IF Cardinality(lobbies) >= MaxLobbyCount
                  THEN /\ outbox' = {ErrorReply(i)}
                       /\ UNCHANGED <<manager_alive, lobbies, next_id, attached,
                                      lobby_clients, closing,
                                      on_close, started, joining>>
                  ELSE \E id \in CreatedIds \ lobbies :
                           /\ lobbies' = lobbies \cup {id}
                           /\ outbox' =
                                  {[to |-> i, type |-> "created_lobby",
                                    lobby_id |-> Some(id),
                                    password |-> Some(password_of(id))]}]_vars

\* A create_lobby has just been answered with error: the table is full.
C17_Witness ==
    /\ Cardinality(lobbies) = MaxLobbyCount
    /\ \E i \in LifeIdentities : outbox = {ErrorReply(i)}

\* ------------------------------------------------------------------ C18
\* The step changes no broker or lobby state and sends nothing.
NothingHappens ==
    /\ outbox' = {}
    /\ UNCHANGED <<manager_alive, lobbies, next_id, attached, lobby_clients,
                   closing, on_close, started, joining>>

\* The leave, login and logout messages a client can send.
SessionMessages ==
    {OnlyType(Some("leave")), OnlyType(Some("logout"))}
    \cup {LoginMessage(v) : v \in {Num(u) : u \in LifeUserIds} \cup {Text("1")}}

\* C18: a join attaches its sender to the lobby it names exactly when the
\* sender is attached to no lobby and the lobby is in the table; a join
\* from an attached identity, a join for a lobby that is not in the
\* table, and a leave, login or logout from an identity that is not
\* attached change nothing and send nothing.
C18_JoinAttachesIffFreeAndLobbyExists ==
    /\ [][\A i \in LifeIdentities, id \in CreatedIds :
              IF attached[i] = None /\ id \in lobbies
              THEN \/ /\ attached'[i] = Some([lobby |-> id, user |-> None])
                      /\ lobby_clients'[id] = lobby_clients[id] \cup {i}
                   \/ ~Receive(i, JoinMessage(Num(id)))
              ELSE NothingHappens \/ ~Receive(i, JoinMessage(Num(id)))]_vars
    /\ [][NothingHappens \/
              \A i \in LifeIdentities, data \in SessionMessages :
                  attached[i] = None => ~Receive(i, data)]_vars

\* A join has just attached a second client to a lobby: both receive the
\* snapshot, and the other client cannot join again.
C18_Witness ==
    \E id \in lobbies :
        /\ lobby_clients[id] = LifeIdentities
        /\ \A i \in LifeIdentities :
               /\ attached[i] = Some([lobby |-> id, user |-> None])
               /\ [to |-> i, type |-> "state", lobby_id |-> None,
                   password |-> None] \in outbox

\* ------------------------------------------------------------------ C19
\* The last step answered a create_lobby with created_lobby for this id.
JustCreated(id) == \E c \in LifeIdentities : outbox = {CreatedLobbyReply(c, id)}

\* After the step the client is attached to the lobby, and the lobby's
\* close timer is cancelled without having set on_close.
AttachedWithoutTimer(i, id) ==
    /\ attached'[i] = Some([lobby |-> id, user |-> None])
    /\ i \in lobby_clients'[id]
    /\ closing'[id] = "none"
    /\ ~on_close'[id]

\* C19 as stated: a join for the id of a created_lobby reply, handled
\* right after the create_lobby, attaches its sender to that lobby and
\* cancels the lobby's close timer.
C19_JoinAfterCreateAttaches ==
    [][\A id \in CreatedIds :
          JustCreated(id) =>
              \A i \in LifeIdentities :
                  Receive(i, JoinMessage(Num(id))) => AttachedWithoutTimer(i, id)]_vars

\* C19, amended: a join for the id of a created_lobby reply, handled right
\* after the create_lobby and sent by an identity that is attached to no
\* lobby, attaches its sender to that lobby and cancels the lobby's close
\* timer.
C19_FreeClientJoinAfterCreateAttaches ==
    [][\A id \in CreatedIds :
          JustCreated(id) =>
              \A i \in LifeIdentities :
                  attached[i] = None /\ Receive(i, JoinMessage(Num(id)))
                      => AttachedWithoutTimer(i, id)]_vars

\* The first client of the newest lobby has just joined it: the lobby has
\* this one client, and no timer.
C19_Witness ==
    \E i \in LifeIdentities :
        /\ next_id - 1 \in lobbies
        /\ lobby_clients[next_id - 1] = {i}
        /\ attached[i] = Some([lobby |-> next_id - 1, user |-> None])
        /\ closing[next_id - 1] = "none"
        /\ ~on_close[next_id - 1]
        /\ outbox = {[to |-> i, type |-> "state", lobby_id |-> None,
                      password |-> None]}

\* ------------------------------------------------------------------ C20
KnownTypes == {"create_lobby", "start_round", "join", "leave", "login", "logout"}

\* A field of a message is there and of the kind its type asks for.
WellTyped(field, kind) == field # None /\ Get(field).kind = kind

\* The client message is invalid: not JSON, not an object, without a
\* type, of an unknown type, or of a known type with a missing or
\* ill-typed field.
Invalid(data) ==
    \/ data.form # "object"
    \/ data.type = None
    \/ Get(data.type) \notin KnownTypes
    \/ data.type = Some("join") /\ ~WellTyped(data.lobby_id, "int")
    \/ data.type = Some("login") /\ ~WellTyped(data.user_id, "int")
    \/ /\ data.type = Some("start_round")
       /\ ~(/\ WellTyped(data.lobby_id, "int")
            /\ WellTyped(data.password, "str")
            /\ WellTyped(data.level_id, "int")
            /\ WellTyped(data.mode, "str"))

\* C20: an invalid client message is dropped without changing broker or
\* lobby state and without a reply, and the broker keeps running.
C20_InvalidMessagesAreDropped ==
    /\ [][NothingHappens \/
              \A i \in LifeIdentities, data \in RawMessages :
                  Invalid(data) => ~Receive(i, data)]_vars
    /\ []manager_alive

\* ------------------------------------------------------------------ C26
\* The client is attached and logged in as the user.
LoggedInAs(i, u) ==
    i \in DOMAIN manager_clients /\ manager_clients[i] = Some(u)

\* C26: the user of a client that detaches without a logout stays in the
\* lobby's users and in the users of the snapshot; a logout handled for a
\* client removes that client's user from the lobby's users.
C26_UserLeavesOnLogoutOnly ==
    /\ [][\A i \in Identities, u \in users :
              LoggedInAs(i, u) /\ handle_leave(i)
                  => u \in users' /\ u \in (lobby_state.users)']_vars
    /\ [][\A i \in Identities, u \in users :
              LoggedInAs(i, u) /\ handle_logout(i) => u \notin users']_vars

\* ------------------------------------------------------------------ C28
\* The rounds of the game that have ended, read off the runner's clock.
RoundsPlayed == (now - WarmupTime) \div CycleTime

\* A remaining player holds a score.
RemainingScorer == remaining \cap ScoreKeys(scores) # {}

\* The step is the elimination step at the end of a round.
EliminationStep == pc = "round" /\ pc' # "round"

\* The step enters Game-Over.
EntersGameOver == pc # "hold" /\ pc' = "hold"

\* A round with a remaining scorer strictly decreases |remaining| at its
\* elimination step.
ScoringRoundShrinksField ==
    [][EliminationStep /\ RemainingScorer
          => Cardinality(users' \ eliminated') < Cardinality(remaining)]_vars

\* C28 as stated: a round with a remaining scorer strictly decreases
\* |remaining| at its elimination step; a game all of whose rounds had a
\* remaining scorer is at Game-Over after at most |users| - 1 rounds; and
\* Game-Over is never reached without a remaining scorer.
C28_ScoringRoundsEndTheGame ==
    /\ ScoringRoundShrinksField
    /\ [](pc = "hold" /\ ~barren => RoundsPlayed <= Cardinality(users) - 1)
    /\ [][EntersGameOver => RemainingScorer]_vars

\* C28, amended: a round with a remaining scorer strictly decreases
\* |remaining| at its elimination step; a game with at least one user all of
\* whose rounds had a remaining scorer is at Game-Over after at most
\* |users| - 1 rounds, and a game with no user after no round; a round with
\* no remaining scorer eliminates nobody and is followed by another break
\* and round; Game-Over is entered only at the end of a round with a
\* remaining scorer, or at the end of the warmup with fewer than two users.
C28_ScoringRoundsEndGamesOfTwo ==
    /\ ScoringRoundShrinksField
    /\ [](pc = "hold" /\ ~barren =>
             IF users = {} THEN RoundsPlayed = 0
             ELSE RoundsPlayed <= Cardinality(users) - 1)
    /\ [][EliminationStep /\ ~RemainingScorer
             => eliminated' = eliminated /\ pc' = "break"]_vars
    /\ [][EntersGameOver =>
             \/ pc = "round" /\ RemainingScorer
             \/ pc = "warmup" /\ Cardinality(remaining) < 2]_vars

\* Three users, each round with a remaining scorer: Game-Over after two
\* rounds.
C28_Witness ==
    /\ pc = "hold"
    /\ ~barren
    /\ Cardinality(users) = 3
    /\ RoundsPlayed = 2

\* ------------------------------------------------------------------ C29
\* The lobbies, in the table or closed, whose clients hold the identity.
LobbiesHolding(i) == {id \in CreatedIds : i \in lobby_clients[id]}

\* C29: in every reachable state an identity is in the Manager's client
\* table if and only if it is in the clients of exactly one lobby, the
\* lobby its Client points to; no identity is in the clients of two
\* lobbies.
C29_ClientTableAgreesWithLobbies ==
    \A i \in LifeIdentities :
        IF attached[i] = None
        THEN LobbiesHolding(i) = {}
        ELSE LobbiesHolding(i) = {Get(attached[i]).lobby}

\* Two clients are attached, to different lobbies.
C29_Witness ==
    /\ attached["c1"] # None
    /\ attached["c2"] # None
    /\ LobbiesHolding("c1") # LobbiesHolding("c2")

\* ------------------------------------------------------------------ C21
\* The non-empty, parseable records of the bytes delivered so far, split on
\* the separator as one piece; what follows the last separator is left out.
RecordsDelivered ==
    SelectSeq(EventsOf(delivered),
              LAMBDA record : record # <<>> /\ record \in EventRecords)

IsPrefix(s, t) == Len(s) <= Len(t) /\ s = SubSeq(t, 1, Len(s))

\* C21: however the bytes of a connection are cut into chunks, what the
\* ingester has published is the sequence of non-empty, parseable records
\* of the concatenated bytes split on 0x1E, each once and in order; empty
\* records and the unterminated tail are not published.  A context
\* terminated during a send leaves a prefix of that sequence.
C21_PublishesRecordsOfConcatenation ==
    /\ IsPrefix(published, RecordsDelivered)
    /\ ingest_pc # "returned" => published = RecordsDelivered
    /\ ingest_pc = "sleep" => upstream = <<>>

\* A connection has ended after two published events.
C21_Witness ==
    /\ ingest_pc = "sleep"
    /\ Len(delivered) = MaxStream
    /\ Len(published) = 2

\* ------------------------------------------------------------------ C22
\* The step is the end of a response body: the sleep starts.
StreamEndStep == ingest_pc = "stream" /\ ingest_pc' = "sleep"

\* C22: the first stream failure waits 1 s; a failure of a connection that
\* published at least one event waits 1 s; a failure of a connection that
\* published nothing (no bytes, heartbeats only, unparseable records only)
\* waits twice as long as the failure before it.
C22_BackoffResetsExactlyOnPublish ==
    [][StreamEndStep =>
          sleep_seconds' = IF sleep_seconds = 0 \/ published # <<>>
                           THEN DEFAULT_BACKOFF_SECONDS
                           ELSE 2 * sleep_seconds]_vars

\* ------------------------------------------------------------------ C23
\* C23: no upstream failure ends dustkid_events: it never raises, and it
\* returns only after the context was closed.
C23_IngesterEndsOnlyOnClosedContext ==
    /\ ingest_pc # "raised"
    /\ ingest_pc = "returned" => context_closed

\* ------------------------------------------------------------------ C24
\* The queries without an integer lobby parameter.
NoLobbyQueries == {query \in Queries : query.kind \in {"absent", "text"}}

\* C24: a websocket whose request has no lobby parameter, or one that is
\* not an integer, is closed at once: run returns, and nothing is sent to
\* the Manager.
C24_NoLobbyParameterClosesAtOnce ==
    [][\A i \in LifeIdentities, query \in NoLobbyQueries :
          Accept(i, query) =>
              /\ inflight'[i] = inflight[i]
              /\ ws_state'[i] = "returned"]_vars

\* ------------------------------------------------------------------ C25
Leave == OnlyType(Some("leave"))

\* The step ends the run of a websocket that sent join.
ClosesAfterJoin(i) ==
    /\ ws_opened[i] = "join"
    /\ ws_state[i] = "open"
    /\ ws_state'[i] = "returned"

\* In this step the Manager receives the leave of an attached client that
\* is the last one of its lobby.
LastClientLeaves(i, id) ==
    /\ manager_alive
    /\ inflight[i] # <<>>
    /\ Head(inflight[i]) = Leave
    /\ inflight'[i] = Tail(inflight[i])
    /\ attached[i] # None
    /\ lobby_clients[id] = {i}

\* C25: a websocket that sent join sends leave when it closes; the Manager
\* then detaches the identity from its lobby, and the close timer of a
\* lobby that the leave empties starts.
C25_CloseSendsLeaveAndDetaches ==
    /\ [][\A i \in LifeIdentities :
              ClosesAfterJoin(i) => inflight'[i] = Append(inflight[i], Leave)]_vars
    /\ \A i \in LifeIdentities :
           (ws_opened[i] = "join" /\ ws_state[i] = "returned") ~> attached[i] = None
    /\ [][\A i \in LifeIdentities, id \in CreatedIds :
              LastClientLeaves(i, id) =>
                  attached'[i] = None /\ closing'[id] = "pending"]_vars

\* ------------------------------------------------------------------ C27
\* The lobbies whose on_dustkid_event was called with the event, in the
\* order of the calls.
LobbiesCalled(event) ==
    LET calls == SelectSeq(deliveries, LAMBDA d : d.event = event)
    IN  [k \in DOMAIN calls |-> calls[k].lobby]

\* The lobbies handle_dustkid_event has still to call with the event.
LobbiesToCall(event) ==
    IF delivery # None /\ Get(delivery).event = event
    THEN Get(delivery).rest
    ELSE <<>>

Ascending(ids) == \A a, b \in DOMAIN ids : a < b => ids[a] < ids[b]
Range(f) == {f[k] : k \in DOMAIN f}

\* Every event received has been given, or is being given, to the lobbies
\* that were in the table when it was received, in insertion order.
DeliveredToLiveLobbiesInOrder ==
    \A k \in DOMAIN receipts :
        LET called == LobbiesCalled(receipts[k].event)
            coming == LobbiesToCall(receipts[k].event)
        IN  /\ Ascending(called \o coming)
            /\ Range(called \o coming) = receipts[k].live
            /\ called # <<>> \/ receipts[k].live = {}

\* Events are received in the order of their publication, and the calls of
\* on_dustkid_event follow that order.
DeliveredInArrivalOrder ==
    /\ \A k \in DOMAIN receipts : receipts[k].event = k
    /\ \A a, b \in DOMAIN deliveries :
           a < b => deliveries[a].event <= deliveries[b].event

\* While the lobbies of an event are being called, the Manager receives
\* no other event and handles no client message.
DeliveryIsNotInterrupted ==
    delivery # None =>
        UNCHANGED <<receipts, next_id, attached, started, manager_alive>>

\* C27: every event received from the bus is delivered to every lobby that
\* is in the table when it is received, in insertion order; each lobby
\* receives the events in the order of their arrival; and the delivery of
\* an event to all lobbies is complete before the Manager handles the next
\* event or a client message.
C27_EventsReachLiveLobbiesInOrder ==
    /\ [](DeliveredToLiveLobbiesInOrder /\ DeliveredInArrivalOrder)
    /\ [][DeliveryIsNotInterrupted]_vars

\* Two events have each been delivered to two lobbies, and a lobby that was
\* in the table when the second was received has left the table since.
C27_Witness ==
    /\ delivery = None
    /\ Len(deliveries) = 4
    /\ receipts[2].live \ lobbies # {}

====
